---------------------------- MODULE Spec2Model ----------------------------
(***************************************************************************)
(* MooSelect (cow_selector_app.py): the filter expression language         *)
(* (parse_condition, evaluate_filter), the boolean-column filter           *)
(* (apply_bool_filters) and the Streamlit script run with its session      *)
(* state (upload, edit, toggle, Apply, Reset).                             *)
(*                                                                         *)
(* Text is a sequence of one-character strings.  A number is a pair        *)
(* <<m, e>> standing for the decimal m / 10^e with no trailing zero in the *)
(* fraction, so that literals such as 5, 5. and 5.0 denote the same value. *)
(* A pandas Series is a function from index labels to values; a DataFrame  *)
(* is a record of its index (a set of labels, kept in ascending order by   *)
(* every operation of the program) and its columns.  Labels start at 1     *)
(* where pandas starts at 0.                                               *)
(***************************************************************************)
EXTENDS Integers, Sequences, FiniteSets, TLC

VARIABLES
    in_df,      \* argument df of a direct call of one of the three functions
    in_expr,    \* argument cond / expr of that call (text)
    in_flags,   \* argument filters of apply_bool_filters
    pc,         \* which function has been called: "in" before the call
    out,        \* what the call returned or raised
    uploaded,   \* the file held by st.file_uploader ("none" or a file name)
    session,    \* st.session_state
    run         \* outcome of the last script run

vars == <<in_df, in_expr, in_flags, pc, out, uploaded, session, run>>

(***************************************************************************)
(* Characters and text                                                     *)
(***************************************************************************)
Digits == <<"0", "1", "2", "3", "4", "5", "6", "7", "8", "9">>

DigitSet == {Digits[i] : i \in 1..Len(Digits)}

Lower ==
    {"a", "b", "c", "d", "e", "f", "g", "h", "i", "j", "k", "l", "m", "n",
     "o", "p", "q", "r", "s", "t", "u", "v", "w", "x", "y", "z"}

Capital ==
    {"A", "B", "C", "D", "E", "F", "G", "H", "I", "J", "K", "L", "M", "N",
     "O", "P", "Q", "R", "S", "T", "U", "V", "W", "X", "Y", "Z"}

LetterSet == Lower \cup Capital

\* \w of the re module
IsWord(ch) == ch \in DigitSet \cup LetterSet \cup {"_"}

\* \s of the re module, str.strip()
IsSpace(ch) == ch = " "

\* [\d\.]
IsNumCh(ch) == ch \in DigitSet \cup {"."}

\* [\d\., ]
IsListCh(ch) == ch \in DigitSet \cup {".", ",", " "}

DigitVal(ch) == (CHOOSE i \in 1..Len(Digits) : Digits[i] = ch) - 1

Tail1(s, i) == SubSeq(s, i, Len(s))

\* the first position >= i of s whose character is not accepted by the class
\* named k; Len(s)+1 when the run reaches the end
RECURSIVE RunEnd(_, _, _)
RunEnd(s, i, k) ==
    IF i > Len(s) THEN i
    ELSE LET ok == CASE k = "word" -> IsWord(s[i])
                      [] k = "space" -> IsSpace(s[i])
                      [] k = "num" -> IsNumCh(s[i])
                      [] k = "list" -> IsListCh(s[i])
         IN IF ok THEN RunEnd(s, i + 1, k) ELSE i

RECURSIVE LStrip(_)
LStrip(s) ==
    IF s # <<>> /\ IsSpace(s[1]) THEN LStrip(Tail(s)) ELSE s

RECURSIVE RStrip(_)
RStrip(s) ==
    IF s # <<>> /\ IsSpace(s[Len(s)]) THEN RStrip(SubSeq(s, 1, Len(s) - 1)) ELSE s

\* str.strip()
Strip(s) == LStrip(RStrip(s))

\* s has the characters of lit at position i
HasAt(s, i, lit) ==
    /\ i + Len(lit) - 1 <= Len(s)
    /\ \A j \in 1..Len(lit) : s[i + j - 1] = lit[j]

\* str.split(","): the pieces between the commas, empty pieces kept
RECURSIVE SplitComma(_)
SplitComma(s) ==
    IF \A i \in 1..Len(s) : s[i] # ","
    THEN <<s>>
    ELSE LET p == CHOOSE i \in 1..Len(s) :
                      s[i] = "," /\ \A j \in 1..(i - 1) : s[j] # ","
         IN <<SubSeq(s, 1, p - 1)>> \o SplitComma(Tail1(s, p + 1))

(***************************************************************************)
(* Numbers                                                                 *)
(***************************************************************************)
RECURSIVE Pow10(_)
Pow10(e) == IF e = 0 THEN 1 ELSE 10 * Pow10(e - 1)

RECURSIVE Norm(_)
Norm(x) ==
    IF x[2] > 0 /\ x[1] % 10 = 0 THEN Norm(<<x[1] \div 10, x[2] - 1>>) ELSE x

NumLt(a, b) == a[1] * Pow10(b[2]) < b[1] * Pow10(a[2])

NumLe(a, b) == a[1] * Pow10(b[2]) <= b[1] * Pow10(a[2])

RECURSIVE DigitsVal(_)
DigitsVal(s) ==
    IF s = <<>> THEN 0
    ELSE 10 * DigitsVal(SubSeq(s, 1, Len(s) - 1)) + DigitVal(s[Len(s)])

\* what float() accepts among the texts made of digits, dots and blanks:
\* at least one digit, at most one dot, nothing else
IsNumeral(s) ==
    /\ \A i \in 1..Len(s) : IsNumCh(s[i])
    /\ \E i \in 1..Len(s) : s[i] \in DigitSet
    /\ Cardinality({i \in 1..Len(s) : s[i] = "."}) <= 1

\* float(s) for a numeral s
NumeralVal(s) ==
    LET dots == {i \in 1..Len(s) : s[i] = "."}
        d == IF dots = {} THEN Len(s) + 1 ELSE CHOOSE i \in dots : TRUE
        ip == SubSeq(s, 1, d - 1)
        fp == SubSeq(s, d + 1, Len(s))
    IN Norm(<<DigitsVal(ip) * Pow10(Len(fp)) + DigitsVal(fp), Len(fp)>>)

RECURSIVE IntStr(_)
IntStr(n) ==
    IF n < 10 THEN <<Digits[n + 1]>> ELSE IntStr(n \div 10) \o <<Digits[(n % 10) + 1]>>

RECURSIVE PadLeft(_, _)
PadLeft(s, w) == IF Len(s) >= w THEN s ELSE PadLeft(<<"0">> \o s, w)

\* str() of a float64 value
FloatStr(x) ==
    IF x[2] = 0 THEN IntStr(x[1]) \o <<".", "0">>
    ELSE IntStr(x[1] \div Pow10(x[2])) \o <<".">>
             \o PadLeft(IntStr(x[1] % Pow10(x[2])), x[2])

(***************************************************************************)
(* pandas: cells, columns, Series, DataFrames                              *)
(***************************************************************************)
NaN == [k |-> "nan"]

NumCell(x) == [k |-> "num", n |-> x]

StrCell(s) == [k |-> "str", s |-> s]

BoolCell(b) == [k |-> "bool", b |-> b]

IsNum(c) == c.k = "num" \/ c.k = "bool"

\* the numeric value of a number cell; True is 1 and False is 0
NumOf(c) == IF c.k = "num" THEN c.n ELSE IF c.b THEN <<1, 0>> ELSE <<0, 0>>

\* pd.Series([b]*len(df)): a fresh Series carries the default RangeIndex
Const(df, b) == [l \in 1..Cardinality(df.idx) |-> b]

\* a | b on Series.  Equal indexes: element by element.  Different indexes:
\* both are aligned on the union of the labels; a label the left operand
\* lacks gives NaN and then False, a label the right operand lacks is read
\* as False.
SerOr(a, b) ==
    IF DOMAIN a = DOMAIN b THEN [l \in DOMAIN a |-> a[l] \/ b[l]]
    ELSE [l \in DOMAIN a \cup DOMAIN b |->
             IF l \notin DOMAIN a THEN FALSE
             ELSE a[l] \/ (l \in DOMAIN b /\ b[l])]

\* a & b on Series, aligned the same way
SerAnd(a, b) ==
    IF DOMAIN a = DOMAIN b THEN [l \in DOMAIN a |-> a[l] /\ b[l]]
    ELSE [l \in DOMAIN a \cup DOMAIN b |->
             IF l \notin DOMAIN a THEN FALSE
             ELSE a[l] /\ (l \in DOMAIN b /\ b[l])]

\* ~a
SerNot(a) == [l \in DOMAIN a |-> ~a[l]]

\* pd.to_numeric(cell, errors='coerce') of one cell of an object column
CoerceCell(c) ==
    CASE c.k = "str" -> IF IsNumeral(c.s) THEN NumCell(NumeralVal(c.s)) ELSE NaN
      [] c.k = "bool" -> NumCell(NumOf(c))
      [] OTHER -> c

\* the dtype pandas gives a column of numbers and NaN
NumDtype(val) ==
    IF \A l \in DOMAIN val : val[l].k = "num" /\ val[l].n[2] = 0
    THEN "int64" ELSE "float64"

\* pd.to_numeric(df[col], errors='coerce'): a numeric column is returned as
\* it is, an object column is converted cell by cell
ToNumeric(col) ==
    IF col.dtype # "object" THEN col
    ELSE LET val == [l \in DOMAIN col.val |-> CoerceCell(col.val[l])]
         IN [dtype |-> NumDtype(val), val |-> val]

\* df[col] = pd.to_numeric(df[col], errors='coerce')
SetNumeric(df, c) ==
    [df EXCEPT !.cols = [@ EXCEPT ![c] = ToNumeric(@)]]

\* df[col].astype(str), one cell
StrForm(c, dtype) ==
    CASE c.k = "nan" -> <<"n", "a", "n">>
      [] c.k = "str" -> c.s
      [] c.k = "bool" -> IF c.b THEN <<"T", "r", "u", "e">>
                         ELSE <<"F", "a", "l", "s", "e">>
      [] c.k = "num" -> IF dtype = "int64" THEN IntStr(c.n[1]) ELSE FloatStr(c.n)

\* df[col].isin(val_list): no coercion, a text cell equals no number
IsIn(col, vals) ==
    [l \in DOMAIN col.val |-> IsNum(col.val[l]) /\ NumOf(col.val[l]) \in vals]

\* df[col] <op> val on a numeric column; every comparison with NaN is False
\* except !=
Compare(col, op, v) ==
    [l \in DOMAIN col.val |->
        LET c == col.val[l] IN
        IF ~IsNum(c) THEN op = "!="
        ELSE CASE op = ">" -> NumLt(v, NumOf(c))
               [] op = "<" -> NumLt(NumOf(c), v)
               [] op = ">=" -> NumLe(v, NumOf(c))
               [] op = "<=" -> NumLe(NumOf(c), v)
               [] op = "=" -> NumOf(c) = v
               [] op = "!=" -> NumOf(c) # v]

(***************************************************************************)
(* parse_condition: the five patterns, tried in order with re.match        *)
(* (anchored at the start of the text, free at its end)                    *)
(***************************************************************************)
\* (\w+)\s*<op>\s*([\d\., ]+) with <op> "!=" or "=".  \s* is greedy and
\* gives one blank back when the list class cannot start after the blanks.
MatchList(s, op) ==
    LET w == RunEnd(s, 1, "word")
        p == RunEnd(s, w, "space")
        q0 == p + Len(op)
        q == RunEnd(s, q0, "space")
        direct == q <= Len(s) /\ IsListCh(s[q])
        st == IF direct THEN q ELSE q - 1
    IN IF w > 1 /\ HasAt(s, p, op) /\ (direct \/ q > q0)
       THEN [ok |-> TRUE, col |-> SubSeq(s, 1, w - 1),
             vals |-> SubSeq(s, st, RunEnd(s, st, "list") - 1)]
       ELSE [ok |-> FALSE]

\* ([\d\.]+)\s*<=\s*(\w+)\s*<=\s*([\d\.]+)
MatchRange(s) ==
    LET a == RunEnd(s, 1, "num")
        p == RunEnd(s, a, "space")
        p2 == RunEnd(s, p + 2, "space")
        w == RunEnd(s, p2, "word")
        p3 == RunEnd(s, w, "space")
        p4 == RunEnd(s, p3 + 2, "space")
        b == RunEnd(s, p4, "num")
    IN IF /\ a > 1
          /\ HasAt(s, p, <<"<", "=">>)
          /\ w > p2
          /\ HasAt(s, p3, <<"<", "=">>)
          /\ b > p4
       THEN [ok |-> TRUE, lo |-> SubSeq(s, 1, a - 1),
             col |-> SubSeq(s, p2, w - 1), hi |-> SubSeq(s, p4, b - 1)]
       ELSE [ok |-> FALSE]

\* the alternation (>=|<=|=|!=|>|<), in the order it is tried
CmpOps ==
    << <<">", "=">>, <<"<", "=">>, <<"=">>, <<"!", "=">>, <<">">>, <<"<">> >>

CmpNames == <<">=", "<=", "=", "!=", ">", "<">>

\* (\w+)\s*(>=|<=|=|!=|>|<)\s*([\d\.]+)
MatchCmp(s) ==
    LET w == RunEnd(s, 1, "word")
        p == RunEnd(s, w, "space")
        q(i) == RunEnd(s, p + Len(CmpOps[i]), "space")
        good == {i \in 1..Len(CmpOps) :
                    HasAt(s, p, CmpOps[i]) /\ RunEnd(s, q(i), "num") > q(i)}
    IN IF w > 1 /\ good # {}
       THEN LET i == CHOOSE j \in good : \A j2 \in good : j <= j2
            IN [ok |-> TRUE, col |-> SubSeq(s, 1, w - 1), op |-> CmpNames[i],
                val |-> SubSeq(s, q(i), RunEnd(s, q(i), "num") - 1)]
       ELSE [ok |-> FALSE]

\* (\w+)\s*=\s*(.+)
MatchCat(s) ==
    LET w == RunEnd(s, 1, "word")
        p == RunEnd(s, w, "space")
        q == RunEnd(s, p + 1, "space")
        st == IF q <= Len(s) THEN q ELSE q - 1
    IN IF w > 1 /\ HasAt(s, p, <<"=">>) /\ (q <= Len(s) \/ q > p + 1)
       THEN [ok |-> TRUE, col |-> SubSeq(s, 1, w - 1), val |-> Tail1(s, st)]
       ELSE [ok |-> FALSE]

\* [float(v.strip()) for v in vals.split(",")]: the pieces, stripped
ListItems(vals) ==
    LET ps == SplitComma(vals) IN [i \in 1..Len(ps) |-> Strip(ps[i])]

Returned(df, mask) == [err |-> "none", df |-> df, mask |-> mask]

\* an exception leaving the function: no value is returned
Raised(e) == [err |-> e]

\* ListCond with the exclusion list restricted to the cells that hold a
\* number, as if the column were coerced and NaN dropped
ListCondDropsNaN(df, m, negate) ==
    IF m.col \notin DOMAIN df.cols THEN Returned(df, Const(df, FALSE))
    ELSE LET items == ListItems(m.vals) IN
         IF \E i \in 1..Len(items) : ~IsNumeral(items[i]) THEN Raised("ValueError")
         ELSE LET vals == {NumeralVal(items[i]) : i \in 1..Len(items)}
                  c == df.cols[m.col]
                  hit == IsIn(c, vals)
              IN Returned(df, IF negate
                              THEN [l \in DOMAIN hit |-> IsNum(c.val[l]) /\ ~hit[l]]
                              ELSE hit)

\* lines 64-79: the two list patterns; the column is looked up before the
\* numbers are converted
ListCond(df, m, negate) ==
    IF m.col \notin DOMAIN df.cols THEN Returned(df, Const(df, FALSE))
    ELSE LET items == ListItems(m.vals) IN
         IF \E i \in 1..Len(items) : ~IsNumeral(items[i]) THEN Raised("ValueError")
         ELSE LET vals == {NumeralVal(items[i]) : i \in 1..Len(items)}
                  hit == IsIn(df.cols[m.col], vals)
              IN Returned(df, IF negate THEN SerNot(hit) ELSE hit)

\* lines 82-88: the numbers are converted before the column is looked up
RangeCond(df, m) ==
    IF ~IsNumeral(m.lo) \/ ~IsNumeral(m.hi) THEN Raised("ValueError")
    ELSE IF m.col \notin DOMAIN df.cols THEN Returned(df, Const(df, FALSE))
    ELSE LET d2 == SetNumeric(df, m.col)
             c == d2.cols[m.col]
         IN Returned(d2, SerAnd(Compare(c, ">=", NumeralVal(m.lo)),
                                Compare(c, "<=", NumeralVal(m.hi))))

\* lines 91-102
CmpCond(df, m) ==
    IF ~IsNumeral(m.val) THEN Raised("ValueError")
    ELSE IF m.col \notin DOMAIN df.cols THEN Returned(df, Const(df, FALSE))
    ELSE LET d2 == SetNumeric(df, m.col)
         IN Returned(d2, Compare(d2.cols[m.col], m.op, NumeralVal(m.val)))

\* lines 105-110
CatCond(df, m) ==
    IF m.col \notin DOMAIN df.cols THEN Returned(df, Const(df, FALSE))
    ELSE LET c == df.cols[m.col]
             v == Strip(m.val)
         IN Returned(df, [l \in DOMAIN c.val |-> StrForm(c.val[l], c.dtype) = v])

parse_condition(df, cond0) ==
    LET cond == Strip(cond0)
        m1 == MatchList(cond, <<"!", "=">>)
        m2 == MatchList(cond, <<"=">>)
        m3 == MatchRange(cond)
        m4 == MatchCmp(cond)
        m5 == MatchCat(cond)
    IN IF m1.ok THEN ListCond(df, m1, TRUE)
       ELSE IF m2.ok THEN ListCond(df, m2, FALSE)
       ELSE IF m3.ok THEN RangeCond(df, m3)
       ELSE IF m4.ok THEN CmpCond(df, m4)
       ELSE IF m5.ok THEN CatCond(df, m5)
       ELSE Returned(df, Const(df, FALSE))

(***************************************************************************)
(* evaluate_filter                                                         *)
(***************************************************************************)
Upper(ch) ==
    CASE ch = "o" -> "O" [] ch = "r" -> "R" [] ch = "a" -> "A"
      [] ch = "n" -> "N" [] ch = "d" -> "D" [] OTHER -> ch

\* \b<kw>\b matches at position i of s, flags=re.IGNORECASE
WordAt(s, i, kw) ==
    /\ i + Len(kw) - 1 <= Len(s)
    /\ \A j \in 1..Len(kw) : Upper(s[i + j - 1]) = kw[j]
    /\ i = 1 \/ ~IsWord(s[i - 1])
    /\ i + Len(kw) > Len(s) \/ ~IsWord(s[i + Len(kw)])

\* re.split(r'\b<kw>\b', s, flags=re.IGNORECASE)
RECURSIVE SplitWord(_, _)
SplitWord(s, kw) ==
    LET hits == {i \in 1..Len(s) : WordAt(s, i, kw)} IN
    IF hits = {} THEN <<s>>
    ELSE LET p == CHOOSE i \in hits : \A j \in hits : i <= j
         IN <<SubSeq(s, 1, p - 1)>> \o SplitWord(Tail1(s, p + Len(kw)), kw)

\* lines 115-117: one "(" and one ")" are removed whenever the text starts
\* with the one and ends with the other
Unwrap(expr) ==
    LET e == Strip(expr) IN
    IF e # <<>> /\ e[1] = "(" /\ e[Len(e)] = ")"
    THEN Strip(SubSeq(e, 2, Len(e) - 1))
    ELSE e

RECURSIVE evaluate_filter(_, _)
RECURSIVE Combine(_, _, _, _, _)
\* the loops of lines 121-124 and 128-130, from part i on: df is the working
\* copy as the parts before i have left it, acc the mask so far
Combine(df, parts, i, acc, isOr) ==
    IF i > Len(parts) THEN Returned(df, acc)
    ELSE LET r == evaluate_filter(df, parts[i]) IN
         IF r.err # "none" THEN r
         ELSE Combine(r.df, parts, i + 1,
                      IF isOr THEN SerOr(acc, r.mask) ELSE SerAnd(acc, r.mask),
                      isOr)

\* evaluate_filter with the two splits exchanged: AND is split before OR
evaluate_filter_AndFirst(df, expr0) ==
    LET expr == Unwrap(expr0)
        or_parts == SplitWord(expr, <<"O", "R">>)
        and_parts == SplitWord(expr, <<"A", "N", "D">>)
    IN IF Len(and_parts) > 1 THEN Combine(df, and_parts, 1, Const(df, TRUE), FALSE)
       ELSE IF Len(or_parts) > 1
            THEN Combine(df, or_parts, 1, Const(df, FALSE), TRUE)
       ELSE parse_condition(df, expr)

evaluate_filter(df, expr0) ==
    LET expr == Unwrap(expr0)
        or_parts == SplitWord(expr, <<"O", "R">>)
        and_parts == SplitWord(expr, <<"A", "N", "D">>)
    IN IF Len(or_parts) > 1 THEN Combine(df, or_parts, 1, Const(df, FALSE), TRUE)
       ELSE IF Len(and_parts) > 1
            THEN Combine(df, and_parts, 1, Const(df, TRUE), FALSE)
       ELSE parse_condition(df, expr)

(***************************************************************************)
(* apply_bool_filters and boolean indexing                                 *)
(***************************************************************************)
\* df[col] == True: True, and the number 1, equal True
EqTrue(col) ==
    [l \in DOMAIN col.val |-> IsNum(col.val[l]) /\ NumOf(col.val[l]) = <<1, 0>>]

\* df[col].isna()
IsNa(col) == [l \in DOMAIN col.val |-> col.val[l].k = "nan"]

\* df[col] == ""
EqEmpty(col) ==
    [l \in DOMAIN col.val |-> col.val[l].k = "str" /\ col.val[l].s = <<>>]

\* lines 137-141: the mask of one column; every operand taken from df
\* carries the index of df, the seed carries a fresh RangeIndex
ColMask(df, f) ==
    LET c == df.cols[f.col]
        m0 == Const(df, FALSE)
        m1 == IF f.inc_true THEN SerOr(m0, EqTrue(c)) ELSE m0
    IN IF f.inc_blank THEN SerOr(SerOr(m1, IsNa(c)), EqEmpty(c)) ELSE m1

RECURSIVE BoolLoop(_, _, _, _)
BoolLoop(df, filters, i, mask) ==
    IF i > Len(filters) THEN mask
    ELSE BoolLoop(df, filters, i + 1, SerAnd(mask, ColMask(df, filters[i])))

\* filters: the dict as the sequence of its items, in insertion order
apply_bool_filters(df, filters) == BoolLoop(df, filters, 1, Const(df, TRUE))

\* df[mask] can be evaluated: a mask with another index is reindexed to the
\* index of df, which needs every label of df
CanIndex(df, mask) == df.idx \subseteq DOMAIN mask

\* df[mask]: the rows whose label the mask maps to True, in their order
Select(df, mask) ==
    LET keep == {l \in df.idx : mask[l]} IN
    [df EXCEPT !.idx = keep,
               !.cols = [c \in DOMAIN df.cols |->
                            [dtype |-> df.cols[c].dtype,
                             val |-> [l \in keep |-> df.cols[c].val[l]]]]]

(***************************************************************************)
(* Datasets: what pd.read_csv returns                                      *)
(***************************************************************************)
\* the dtype read_csv infers for a column
CsvDtype(cells) ==
    IF \A i \in 1..Len(cells) : cells[i].k = "bool" THEN "bool"
    ELSE IF \A i \in 1..Len(cells) : cells[i].k \in {"num", "nan"}
         THEN NumDtype(cells)
    ELSE "object"

Column(cells) == [dtype |-> CsvDtype(cells), val |-> cells]

\* a DataFrame with the default RangeIndex; names is the order of df.columns
Frame(names, cols) ==
    [idx |-> DOMAIN cols[names[1]].val, names |-> names, cols |-> cols]

(***************************************************************************)
(* Inputs of the direct calls                                              *)
(***************************************************************************)
\* the most rows of a dataset handed to a direct call
MaxRows == 2

ColX == <<"X">>

ColB == <<"B">>

\* a column that no dataset has
ColZ == <<"Z">>

Abc == <<"a", "b", "c">>

\* cells of a numeric column of a CSV file
NumPool == {NumCell(<<3, 0>>), NumCell(<<7, 0>>), NaN}

\* cells of a text column of a CSV file; one that mixes numbers and words
\* keeps the numbers as text
StrPool == {StrCell(Abc), StrCell(<<"7">>), NaN}

\* cells of a boolean-like column
BoolPool == {BoolCell(TRUE), BoolCell(FALSE), NaN}

\* the columns read_csv can produce from these cells: all numeric, or text
\* with at least one cell that is no number
XColumns(n) ==
    [1..n -> NumPool]
        \cup {c \in [1..n -> StrPool] : \E i \in 1..n : c[i] = StrCell(Abc)}

\* datasets with the one column X
XFrames ==
    {Frame(<<ColX>>, ColX :> Column(c)) : c \in UNION {XColumns(n) : n \in 1..MaxRows}}

\* datasets with a numeric column X and a boolean-like column B
XBFrames ==
    {Frame(<<ColX, ColB>>,
           (ColX :> Column([i \in DOMAIN b |-> NumCell(<<3, 0>>)]))
               @@ (ColB :> Column(b))) :
        b \in UNION {[1..n -> BoolPool] : n \in 1..MaxRows}}

\* atomic conditions that are combined with AND, OR and parentheses
CoreAtoms ==
    {<<"X", " ", ">", " ", "5">>,                               \* X > 5
     <<"X", " ", "<", "=", " ", "3">>,                          \* X <= 3
     <<"X", "=", "a", "b", "c">>,                               \* X=abc
     <<"X", " ", "=", " ", "7">>,                               \* X = 7
     <<"X", " ", ">", " ", "1", ".", "2", ".", "3">>}           \* X > 1.2.3

\* the right-hand sides of the list conditions: well formed, and with an
\* empty item, a trailing comma, two dots, a blank inside a number
NumLists ==
    {<<"3">>,                                                   \* 3
     <<"3", ",", " ", "7">>,                                    \* 3, 7
     <<"7", ",", "5">>,                                         \* 7,5
     <<"3", ",", ",", "7">>,                                    \* 3,,7
     <<"7", ",">>,                                              \* 7,
     <<"1", ".", "2", ".", "3">>,                               \* 1.2.3
     <<"3", " ", "7">>}                                         \* 3 7

\* right-hand sides of an equality with text
Words ==
    {<<"a", "b", "c">>,                                         \* abc
     <<"n", "a", "n">>,                                         \* nan
     <<"7", "u", "p">>}                                         \* 7up

\* further conditions: no pattern matches, ranges, comparisons, malformed
\* numbers, the unknown column Z
OtherAtoms ==
    {<<>>,                                                      \* (empty)
     <<"(">>,                                                   \* (
     <<"a", "b", "c">>,                                         \* abc
     <<"X", " ", "~", " ", "5">>,                               \* X ~ 5
     <<"X", " ", "=">>,                                         \* X =
     <<"X", " ", "=", ">", " ", "7">>,                          \* X => 7
     <<"3", " ", "<", "=", " ", "X", " ", "<", "=", " ", "7">>, \* 3 <= X <= 7
     <<"7", " ", "<", "=", " ", "X", " ", "<", "=", " ", "7", ".", "0">>, \* 7 <= X <= 7.0
     <<"1", ".", "2", ".", "3", " ", "<", "=", " ", "X", " ", "<", "=", " ", "5">>, \* 1.2.3 <= X <= 5
     <<"3", " ", "<", "=", " ", "X", " ", "<", "=", " ", ".">>, \* 3 <= X <= .
     <<"X", " ", ">", "=", " ", "7">>,                          \* X >= 7
     <<"X", " ", "<", " ", "7">>,                               \* X < 7
     <<"X", " ", "!", "=", " ", "a", "b", "c">>,                \* X != abc
     <<"X", "=", "7", ".", "0">>,                               \* X=7.0
     <<"3", " ", "<", "=", " ", "Z", " ", "<", "=", " ", "7">>, \* 3 <= Z <= 7
     <<"1", ".", "2", ".", "3", " ", "<", "=", " ", "Z", " ", "<", "=", " ", "7">>, \* 1.2.3 <= Z <= 7
     <<"Z", " ", ">", " ", "5">>,                               \* Z > 5
     <<"Z", " ", ">", " ", "1", ".", "2", ".", "3">>,           \* Z > 1.2.3
     <<"Z", " ", "<", "=", " ", "5">>}                          \* Z <= 5

AND == <<" ", "A", "N", "D", " ">>

OR == <<" ", "O", "R", " ">>

or == <<" ", "o", "r", " ">>

Paren(p) == <<"(">> \o p \o <<")">>

\* A AND B OR C
AndOr(a, b, c) == a \o AND \o b \o OR \o c

\* col != list and col = list, as the help text writes them
Excl(col, list) == col \o <<" ", "!", "=", " ">> \o list

Incl(col, list) == col \o <<" ", "=", " ">> \o list

\* col = text, with the blanks before and after the sign as given
Equals(col, pre, post, text) == col \o pre \o <<"=">> \o post \o text

Blanks == {<<>>, <<" ">>}

ListExprs == {Excl(c, l) : c \in {ColX, ColZ}, l \in NumLists}
                 \cup {Incl(c, l) : c \in {ColX, ColZ}, l \in NumLists}

EqualsExprs ==
    {Equals(c, pre, post, w) :
        c \in {ColX, ColZ}, pre \in Blanks, post \in Blanks, w \in Words}

PairExprs ==
    UNION {{p \o OR \o q, p \o or \o q, p \o AND \o q, Paren(p \o OR \o q),
            Paren(p) \o OR \o Paren(q), Paren(p) \o AND \o Paren(q)} :
              p \in CoreAtoms, q \in CoreAtoms}

TripleExprs == {AndOr(a, b, c) : a \in CoreAtoms, b \in CoreAtoms, c \in CoreAtoms}

Exprs ==
    CoreAtoms \cup OtherAtoms \cup ListExprs \cup EqualsExprs \cup PairExprs
        \cup TripleExprs \cup {Paren(p) : p \in CoreAtoms}

\* the dict of checkbox values of the boolean-like column B
FlagsOfB == {<<[col |-> ColB, inc_true |-> t, inc_blank |-> b]>> : t, b \in BOOLEAN}

NoFrame == <<>>

NoResult == [err |-> "not called"]

(***************************************************************************)
(* Direct calls of parse_condition, evaluate_filter and apply_bool_filters *)
(***************************************************************************)
AppIdle ==
    /\ uploaded = NoFrame
    /\ session = [keys |-> {}, filtered_df |-> NoFrame, filter_input |-> <<>>,
                  bool_filters |-> <<>>]
    /\ run = [ev |-> "start", res |-> "idle"]

InitFn ==
    /\ \/ in_df \in XFrames /\ in_expr \in Exprs /\ in_flags = <<>>
       \/ in_df \in XBFrames /\ in_expr = <<>> /\ in_flags \in FlagsOfB
    /\ pc = "in"
    /\ out = NoResult
    /\ AppIdle

CallParse ==
    /\ pc = "in"
    /\ pc' = "parse"
    /\ out' = parse_condition(in_df, in_expr)
    /\ UNCHANGED <<in_df, in_expr, in_flags, uploaded, session, run>>

CallEvaluate ==
    /\ pc = "in"
    /\ pc' = "eval"
    /\ out' = evaluate_filter(in_df, in_expr)
    /\ UNCHANGED <<in_df, in_expr, in_flags, uploaded, session, run>>

CallBool ==
    /\ pc = "in"
    /\ pc' = "bool"
    /\ out' = Returned(in_df, apply_bool_filters(in_df, in_flags))
    /\ UNCHANGED <<in_df, in_expr, in_flags, uploaded, session, run>>

NextFn == CallParse \/ CallEvaluate \/ CallBool

SpecFn == InitFn /\ [][NextFn]_vars

(***************************************************************************)
(* The script run: lines 10-169.  The plots of lines 179-242 read the      *)
(* session state and leave it alone; they are not modelled.                *)
(***************************************************************************)
\* lines 23-27: the columns whose values other than NaN all equal True or
\* False (1 and 0 do), in the order of df.columns
IsBoolLike(col) ==
    \A l \in DOMAIN col.val :
        col.val[l].k = "nan"
            \/ (IsNum(col.val[l]) /\ NumOf(col.val[l]) \in {<<0, 0>>, <<1, 0>>})

RECURSIVE BoolColsFrom(_, _)
BoolColsFrom(df, i) ==
    IF i > Len(df.names) THEN <<>>
    ELSE (IF IsBoolLike(df.cols[df.names[i]]) THEN <<df.names[i]>> ELSE <<>>)
             \o BoolColsFrom(df, i + 1)

BoolCols(df) == BoolColsFrom(df, 1)

\* {col: (True, True) for col in bool_cols}
DefaultFilters(bool_cols) ==
    [i \in 1..Len(bool_cols) |->
        [col |-> bool_cols[i], inc_true |-> TRUE, inc_blank |-> TRUE]]

AllKeys == {"filtered_df", "filter_input", "bool_filters"}

\* lines 30-35
InitSession(s, df, bool_cols) ==
    [keys |-> AllKeys,
     filtered_df |-> IF "filtered_df" \in s.keys THEN s.filtered_df ELSE <<df>>,
     filter_input |-> IF "filter_input" \in s.keys THEN s.filter_input ELSE <<>>,
     bool_filters |-> IF "bool_filters" \in s.keys THEN s.bool_filters
                      ELSE DefaultFilters(bool_cols)]

HasFilter(filters, c) == \E i \in 1..Len(filters) : filters[i].col = c

FilterOf(filters, c) == filters[CHOOSE i \in 1..Len(filters) : filters[i].col = c]

\* lines 54-56: a checkbox returns its value= argument unless the user has
\* just clicked it.  toggle is <<>> or <<[col, box]>>, the box clicked.
Checkboxes(filters, bool_cols, toggle) ==
    [i \in 1..Len(bool_cols) |->
        LET f == FilterOf(filters, bool_cols[i])
            hit(box) == toggle # <<>> /\ toggle[1].col = f.col /\ toggle[1].box = box
        IN [col |-> f.col,
            inc_true |-> IF hit("true") THEN ~f.inc_true ELSE f.inc_true,
            inc_blank |-> IF hit("blank") THEN ~f.inc_blank ELSE f.inc_blank]]

\* line 161 and line 164: df[mask], or the exception it raises
Indexed(df, mask) ==
    IF CanIndex(df, mask) THEN [err |-> "none", df |-> Select(df, mask)]
    ELSE Raised("IndexingError")

\* lines 160-161, given what evaluate_filter returned or raised
ExprRows(r) == IF r.err # "none" THEN r ELSE Indexed(r.df, r.mask)

\* lines 158-161: the working copy after the expression
ExprStep(df, text) ==
    IF Strip(text) # <<>> THEN ExprRows(evaluate_filter(df, text))
    ELSE [err |-> "none", df |-> df]

\* lines 162-164, given the outcome of lines 158-161
BoolStep(r, filters, bool_cols) ==
    IF r.err # "none" \/ bool_cols = <<>> THEN r
    ELSE Indexed(r.df, apply_bool_filters(r.df, filters))

\* line 165, unless an exception has ended the run
Store(s, r) ==
    IF r.err # "none" THEN [session |-> s, res |-> r.err]
    ELSE [session |-> [s EXCEPT !.filtered_df = <<r.df>>], res |-> "ok"]

\* lines 157-165
Apply(df, s, bool_cols) ==
    Store(s, BoolStep(ExprStep(df, s.filter_input), s.bool_filters, bool_cols))

\* lines 152-155
Reset(df, s, bool_cols) ==
    [session |-> [s EXCEPT !.filtered_df = <<df>>, !.filter_input = <<>>,
                           !.bool_filters = DefaultFilters(bool_cols)],
     res |-> "ok"]

\* lines 146-165: the buttons
Buttons(df, s, bool_cols, button) ==
    CASE button = "reset" -> Reset(df, s, bool_cols)
      [] button = "apply" -> Apply(df, s, bool_cols)
      [] OTHER -> [session |-> s, res |-> "ok"]

\* lines 52-57: st.session_state.bool_filters[col] raises KeyError for a
\* boolean-like column that the dict does not hold
BoolWidgets(df, s, bool_cols, toggle, button) ==
    IF \E i \in 1..Len(bool_cols) : ~HasFilter(s.bool_filters, bool_cols[i])
    THEN [session |-> s, res |-> "KeyError"]
    ELSE Buttons(df, [s EXCEPT !.bool_filters = Checkboxes(@, bool_cols, toggle)],
                 bool_cols, button)

\* lines 47-48: the text area returns its value= argument unless the user
\* has just typed; edit is <<>> or <<the text typed>>
TextArea(s, edit) == [s EXCEPT !.filter_input = IF edit = <<>> THEN @ ELSE edit[1]]

\* lines 13-165, with the file read
Body(df, s, bool_cols, edit, toggle, button) ==
    BoolWidgets(df, TextArea(InitSession(s, df, bool_cols), edit), bool_cols,
                toggle, button)

\* One run of the script.  up: the uploader's file; s: the session state;
\* edit, toggle, button: what the user has just done, if anything.  What an
\* exception leaves in the session state stays there.
Script(up, s, edit, toggle, button) ==
    IF up = <<>> THEN [session |-> s, res |-> "idle"]
    ELSE Body(up[1], s, BoolCols(up[1]), edit, toggle, button)

(***************************************************************************)
(* The user's events.  Each one makes Streamlit run the script once.       *)
(***************************************************************************)
Row3 == NumCell(<<3, 0>>)

Row7 == NumCell(<<7, 0>>)

\* X = 3, 7, 7 and B = True, (blank), True
FileA ==
    Frame(<<ColX, ColB>>,
          (ColX :> Column(<<Row3, Row7, Row7>>))
              @@ (ColB :> Column(<<BoolCell(TRUE), NaN, BoolCell(TRUE)>>)))

\* X = 7, 3 and no other column
FileB == Frame(<<ColX>>, ColX :> Column(<<Row7, Row3>>))

\* X = 3, 7 and B = False, True
FileC ==
    Frame(<<ColX, ColB>>,
          (ColX :> Column(<<Row3, Row7>>))
              @@ (ColB :> Column(<<BoolCell(FALSE), BoolCell(TRUE)>>)))

AppFiles == {FileA, FileB, FileC}

\* what the user types into the text area
AppTexts ==
    {<<>>,                                                      \* (empty)
     <<"X", " ", ">", " ", "5">>,                               \* X > 5
     <<"X", " ", "<", " ", "5", " ", "O", "R", " ", "X", " ", "=", " ", "7">>, \* X < 5 OR X = 7
     <<"X", " ", "=", " ", "a", "b", "c">>}                     \* X = abc

Init ==
    /\ in_df = NoFrame
    /\ in_expr = <<>>
    /\ in_flags = <<>>
    /\ pc = "app"
    /\ out = NoResult
    /\ AppIdle

\* the widgets below the checkboxes were drawn by the last run
Drawn == uploaded # <<>> /\ run.res # "KeyError"

\* the run ends with r: the session state it leaves and how it ended
Ends(ev, up, r) ==
    /\ uploaded' = up
    /\ session' = r.session
    /\ run' = [ev |-> ev, res |-> r.res]
    /\ UNCHANGED <<in_df, in_expr, in_flags, pc, out>>

Event(ev, up, edit, toggle, button) ==
    Ends(ev, up, Script(up, session, edit, toggle, button))

\* a file is uploaded, or put in the place of the one shown
Upload(f) ==
    /\ uploaded # <<f>>
    /\ Event("upload", <<f>>, <<>>, <<>>, "none")

\* the uploaded file is removed
Remove ==
    /\ uploaded # <<>>
    /\ Event("remove", <<>>, <<>>, <<>>, "none")

EditFilter(t) ==
    /\ uploaded # <<>>
    /\ t # session.filter_input
    /\ Event("edit", uploaded, <<t>>, <<>>, "none")

Toggle(c, box) ==
    /\ Drawn
    /\ HasFilter(session.bool_filters, c)
    /\ Event("toggle", uploaded, <<>>, <<[col |-> c, box |-> box]>>, "none")

ClickApply ==
    /\ Drawn
    /\ Event("apply", uploaded, <<>>, <<>>, "apply")

ClickReset ==
    /\ Drawn
    /\ Event("reset", uploaded, <<>>, <<>>, "reset")

Next ==
    \/ \E f \in AppFiles : Upload(f)
    \/ Remove
    \/ \E t \in AppTexts : EditFilter(t)
    \/ \E c \in {ColB}, box \in {"true", "blank"} : Toggle(c, box)
    \/ ClickApply
    \/ ClickReset

Spec == Init /\ [][Next]_vars

(***************************************************************************)
(* Properties                                                              *)
(***************************************************************************)
\* the cell of row l in column c of the argument of the direct call
Cell(c, l) == in_df.cols[c].val[l]

Rows == in_df.idx

\* parse_condition on the argument dataset as it was handed in
Fresh(cond) == parse_condition(in_df, cond)

\* A, then B, then C handed to parse_condition on one working copy, in that
\* order: the three masks and the working copy they leave, or the first
\* exception, which ends the evaluation
InOrder(a, b, c) ==
    LET ra == parse_condition(in_df, a) IN
    IF ra.err # "none" THEN ra
    ELSE LET rb == parse_condition(ra.df, b) IN
         IF rb.err # "none" THEN rb
         ELSE LET rc == parse_condition(rb.df, c) IN
              IF rc.err # "none" THEN rc
              ELSE [err |-> "none", df |-> rc.df,
                    A |-> ra.mask, B |-> rb.mask, C |-> rc.mask]

\* C1 as the specification states it: evaluate_filter(df, "A AND B OR C") is
\* mask(A) AND (mask(B) OR mask(C)) in every row, for all atomic conditions
\* A, B, C that parse_condition accepts.
C1_AndOverOr ==
    \A a \in CoreAtoms, b \in CoreAtoms, c \in CoreAtoms :
        (pc = "eval" /\ in_expr = AndOr(a, b, c) /\ InOrder(a, b, c).err = "none")
        => LET m == InOrder(a, b, c) IN
           /\ out.err = "none"
           /\ \A l \in Rows : out.mask[l] = (m.A[l] /\ (m.B[l] \/ m.C[l]))

\* C1 amended: evaluate_filter(df, "A AND B OR C") groups as (A AND B) OR C.
\* It gives what A, B and C give when parse_condition takes them in this
\* order on one working copy, the masks combined as (A AND B) OR C row by
\* row, and it raises what the first of them to fail raises.
C1_OrOverAnd ==
    \A a \in CoreAtoms, b \in CoreAtoms, c \in CoreAtoms :
        (pc = "eval" /\ in_expr = AndOr(a, b, c))
        => LET m == InOrder(a, b, c) IN
           /\ out.err = m.err
           /\ out.err = "none" =>
                  /\ DOMAIN out.mask = Rows
                  /\ \A l \in Rows : out.mask[l] = ((m.A[l] /\ m.B[l]) \/ m.C[l])

\* C1 witness: "A AND B OR C" has been evaluated and a row is selected
\* although A is false in it, which only the grouping (A AND B) OR C allows.
C1_Witness ==
    \E a \in CoreAtoms, b \in CoreAtoms, c \in CoreAtoms :
        /\ pc = "eval"
        /\ in_expr = AndOr(a, b, c)
        /\ out.err = "none"
        /\ \E l \in Rows : out.mask[l] /\ ~InOrder(a, b, c).A[l]

\* the cell can be coerced to a number
Coercible(cell) == CoerceCell(cell).k = "num"

\* C5 as the specification states it: for the same column and number list,
\* the masks of "col != list" and "col = list" are complements in every row
\* whose cell is numeric-coercible, and both are false in every other row.
C5_FalseInBoth ==
    \A list \in NumLists :
        (pc = "parse" /\ in_expr = Excl(ColX, list) /\ out.err = "none")
        => LET inc == Fresh(Incl(ColX, list)) IN
           /\ inc.err = "none"
           /\ \A l \in Rows :
                  IF Coercible(Cell(ColX, l)) THEN out.mask[l] = ~inc.mask[l]
                  ELSE ~out.mask[l] /\ ~inc.mask[l]

\* C5 amended: for an existing column and the same number list,
\* "col != list" and "col = list" raise the same error or return masks that
\* are complements in every row of the dataset; a row whose cell is text or
\* missing is false in the inclusion mask and true in the exclusion mask.
C5_Complements ==
    \A list \in NumLists :
        (pc = "parse" /\ in_expr = Excl(ColX, list))
        => LET inc == Fresh(Incl(ColX, list)) IN
           /\ out.err = inc.err
           /\ out.err = "none" =>
                  /\ DOMAIN out.mask = Rows /\ DOMAIN inc.mask = Rows
                  /\ \A l \in Rows :
                         /\ out.mask[l] = ~inc.mask[l]
                         /\ Cell(ColX, l).k \in {"str", "nan"} =>
                                out.mask[l] /\ ~inc.mask[l]

\* C5 witness: an exclusion list has been matched against a dataset with a
\* missing cell, and the row of that cell is in the mask.
C5_Witness ==
    \E list \in NumLists :
        /\ pc = "parse"
        /\ in_expr = Excl(ColX, list)
        /\ out.err = "none"
        /\ \E l \in Rows : Cell(ColX, l).k = "nan" /\ out.mask[l]

\* no pattern of parse_condition matches the text
NoShape(s) ==
    /\ ~MatchList(s, <<"!", "=">>).ok /\ ~MatchList(s, <<"=">>).ok
    /\ ~MatchRange(s).ok /\ ~MatchCmp(s).ok /\ ~MatchCat(s).ok

\* C3: for every expression text, however malformed, parse_condition and
\* evaluate_filter return a mask with one value per row and raise nothing;
\* a condition that no pattern matches gives the all-false mask.
C3_NeverRaises ==
    pc \in {"parse", "eval"}
    => /\ out.err = "none"
       /\ DOMAIN out.mask = Rows
       /\ (pc = "parse" /\ NoShape(Strip(in_expr))) => \A l \in Rows : ~out.mask[l]

\* text that is no number and does not begin like one
PlainWords == {Abc, <<"n", "a", "n">>}

\* C4: for the existing column X and a condition "X = text" with text that
\* is no number, written with or without blanks around the sign, the mask
\* of parse_condition is true exactly in the rows whose cell, as a string,
\* equals the text.
C4_TextEquality ==
    \A pre \in Blanks, post \in Blanks, w \in PlainWords :
        (pc = "parse" /\ in_expr = Equals(ColX, pre, post, w))
        => /\ out.err = "none"
           /\ \A l \in Rows :
                  out.mask[l] = (StrForm(Cell(ColX, l), in_df.cols[ColX].dtype) = w)

\* C6: with the default flags (True, True) for every boolean-like column,
\* apply_bool_filters returns true for every row, rows with False included.
C6_DefaultUnrestricted ==
    (pc = "bool" /\ in_flags = DefaultFilters(BoolCols(in_df)))
    => \A l \in Rows : out.mask[l]

Eval(e) == evaluate_filter(in_df, e)

\* C7: "(P) OR (Q)" evaluates to mask(P) OR mask(Q) and "(P) AND (Q)" to
\* mask(P) AND mask(Q), for conditions P and Q that evaluate_filter accepts.
C7_ParenthesesGroup ==
    \A p \in CoreAtoms, q \in CoreAtoms :
        (pc = "eval" /\ Eval(p).err = "none" /\ Eval(q).err = "none")
        => /\ in_expr = Paren(p) \o OR \o Paren(q) =>
                  /\ out.err = "none"
                  /\ \A l \in Rows : out.mask[l] = (Eval(p).mask[l] \/ Eval(q).mask[l])
           /\ in_expr = Paren(p) \o AND \o Paren(q) =>
                  /\ out.err = "none"
                  /\ \A l \in Rows : out.mask[l] = (Eval(p).mask[l] /\ Eval(q).mask[l])

\* The evaluator of the specification's alternative: the algorithm of
\* evaluate_filter with every condition coerced per call, on the dataset as
\* it was handed in, so that no condition sees what another has coerced.
RECURSIVE evaluate_per_call(_, _)
RECURSIVE CombinePerCall(_, _, _, _, _)
CombinePerCall(df, parts, i, acc, isOr) ==
    IF i > Len(parts) THEN Returned(df, acc)
    ELSE LET r == evaluate_per_call(df, parts[i]) IN
         IF r.err # "none" THEN r
         ELSE CombinePerCall(df, parts, i + 1,
                             IF isOr THEN SerOr(acc, r.mask) ELSE SerAnd(acc, r.mask),
                             isOr)

evaluate_per_call(df, expr0) ==
    LET expr == Unwrap(expr0)
        or_parts == SplitWord(expr, <<"O", "R">>)
        and_parts == SplitWord(expr, <<"A", "N", "D">>)
    IN IF Len(or_parts) > 1
       THEN CombinePerCall(df, or_parts, 1, Const(df, FALSE), TRUE)
       ELSE IF Len(and_parts) > 1
            THEN CombinePerCall(df, and_parts, 1, Const(df, TRUE), FALSE)
       ELSE parse_condition(df, expr)

\* C8: the in-place coercion is unobservable.  evaluate_filter returns the
\* mask of the evaluator that coerces per call, and "P OR Q" gives the mask
\* of "Q OR P".
C8_CoercionUnobservable ==
    (pc = "eval" /\ out.err = "none")
    => /\ out.mask = evaluate_per_call(in_df, in_expr).mask
       /\ \A p \in CoreAtoms, q \in CoreAtoms :
              in_expr = p \o OR \o q => out.mask = Eval(q \o OR \o p).mask

\* the conditions of the five shapes that name the column Z
UnknownColumnExprs ==
    {e \in Exprs :
        \/ MatchList(e, <<"!", "=">>).ok /\ MatchList(e, <<"!", "=">>).col = ColZ
        \/ MatchList(e, <<"=">>).ok /\ MatchList(e, <<"=">>).col = ColZ
        \/ MatchRange(e).ok /\ MatchRange(e).col = ColZ
        \/ MatchCmp(e).ok /\ MatchCmp(e).col = ColZ
        \/ MatchCat(e).ok /\ MatchCat(e).col = ColZ}

\* C9: for every condition shape, if the column it names is not in the
\* dataset, parse_condition raises nothing and returns the all-false mask
\* with one value per row.
C9_UnknownColumn ==
    (pc = "parse" /\ in_expr \in UnknownColumnExprs)
    => out.err = "none" /\ out.mask = Const(in_df, FALSE)

\* the masks of the loaded dataset, each row judged by its own cells
ExprMask(df, text) == evaluate_filter(df, text)

BoolMask(df, filters) == apply_bool_filters(df, filters)

\* C2: when Apply has run with an expression that evaluate_filter accepts,
\* the rows selected are exactly the rows of the loaded dataset whose
\* expression mask (true if the expression is blank) and boolean-column
\* mask (true if there is no boolean-like column) are both true.
C2_ApplySelectsByRow ==
    LET df == uploaded[1]
        text == session.filter_input
        blank == Strip(text) = <<>>
    IN (run.ev = "apply" /\ (blank \/ ExprMask(df, text).err = "none"))
       => /\ run.res = "ok"
          /\ session.filtered_df[1].idx =
                 {l \in df.idx :
                     /\ blank \/ ExprMask(df, text).mask[l]
                     /\ BoolMask(df, session.bool_filters)[l]}

\* every row of shown is a row of df: its label, its columns and its cells,
\* a cell of df possibly coerced to a number
RowsFrom(shown, df) ==
    /\ shown.names = df.names
    /\ shown.idx \subseteq df.idx
    /\ \A c \in DOMAIN shown.cols : \A l \in shown.idx :
           shown.cols[c].val[l] \in {df.cols[c].val[l], CoerceCell(df.cols[c].val[l])}

\* C10: after every run with a file uploaded, the checkboxes of all the
\* boolean-like columns of the file have been drawn from
\* session_state.bool_filters without a KeyError, and the dataset shown and
\* offered for download holds only rows of that file.
C10_SessionFollowsUpload ==
    uploaded # <<>>
    => /\ run.res # "KeyError"
       /\ run.res = "ok" => RowsFrom(session.filtered_df[1], uploaded[1])

=============================================================================
